---- MODULE Spec2Model ----
(***************************************************************************)
(* biome-eject: main() loads the Biome configuration, lets visit_registry  *)
(* record every analyzer rule into a RuleRegistry, and, when the linter is *)
(* enabled, write_eslint_config walks the registry, resolves severities    *)
(* and rule sources, and assembles the module written to eslint.config.mjs.*)
(***************************************************************************)
EXTENDS Integers, Sequences, FiniteSets, TLC

VARIABLES
    config,         \* the parsed Configuration (main.rs:41)
    groups,         \* RuleRegistry.groups: BTreeMap<group, BTreeMap<rule, RuleMetadata>>
    pc,             \* position of main / write_eslint_config
    enabled_rules,  \* BTreeSet<(group, rule)> (eslint.rs:249)
    gi, ri,         \* position of the two nested loops of the registry walk
    sources,        \* BTreeSet<RuleSourceKind> (eslint.rs:258)
    rules,          \* BTreeMap<String, Severity> (eslint.rs:259)
    log,            \* the lines printed on stdout by the walk
    imports,        \* Vec<JsImport> (eslint.rs:289)
    plugins,        \* Vec<AnyJsObjectMember> (eslint.rs:290)
    objects,        \* the object expressions built at eslint.rs:317-348, once built
    fault,          \* the expression whose evaluation ended the run, if any
    file            \* the module items written to eslint.config.mjs

vars == <<config, groups, pc, enabled_rules, gi, ri, sources, rules, log,
          imports, plugins, objects, fault, file>>

None == "None"

(***************************************************************************)
(* Bounds of the model                                                     *)
(***************************************************************************)
\* the most per-rule overrides a group's section of biome.json carries
MaxOverrides == 1

(***************************************************************************)
(* RuleSourceKind (eslint.rs:18-166)                                       *)
(***************************************************************************)
\* the variants in declaration order, which is the order #[derive(Ord)] gives
RuleSourceKind ==
    << "Clippy", "DenoLint", "Eslint", "EslintBarrelFiles", "EslintGraphql",
       "EslintImport", "EslintImportAccess", "EslintJest", "EslintJsDoc",
       "EslintJsxA11y", "EslintMysticatea", "EslintN", "EslintNext",
       "EslintNoSecrets", "EslintPackageJson", "EslintPackageJsonDependencies",
       "EslintPerfectionist", "EslintQwik", "EslintReact", "EslintReactHooks",
       "EslintReactPreferFunctionComponent", "EslintReactRefresh",
       "EslintReactX", "EslintReactXyz", "EslintRegexp", "EslintSolid",
       "EslintSonarJs", "EslintStylistic", "EslintTypeScript", "EslintUnicorn",
       "EslintUnusedImports", "EslintVitest", "EslintVueJs",
       "GraphqlSchemaLinter", "Stylelint", "EslintTurbo" >>

KindOrd(kind) == CHOOSE i \in 1..Len(RuleSourceKind) : RuleSourceKind[i] = kind

KindLess(a, b) == KindOrd(a) < KindOrd(b)

\* impl From<&RuleSource> for RuleSourceKind: one arm per RuleSource variant
RuleSourceKindFrom(value) ==
    CHOOSE kind \in {RuleSourceKind[i] : i \in 1..Len(RuleSourceKind)} :
        kind = value.source

as_namespace(kind) ==
    CASE kind = "EslintBarrelFiles" -> "barrel-files"
      [] kind = "EslintGraphql" -> "@graphql-eslint"
      [] kind = "EslintImport" -> "import"
      [] kind = "EslintImportAccess" -> "import-access"
      [] kind = "EslintJest" -> "jest"
      [] kind = "EslintJsDoc" -> "jsdoc"
      [] kind = "EslintJsxA11y" -> "jsx-a11y"
      [] kind = "EslintMysticatea" -> "@mysticatea"
      [] kind = "EslintN" -> "n"
      [] kind = "EslintNext" -> "@next/next"
      [] kind = "EslintNoSecrets" -> "no-secrets"
      [] kind = "EslintPackageJson" -> "package-json"
      [] kind = "EslintPackageJsonDependencies" -> "package-json-dependencies"
      [] kind = "EslintPerfectionist" -> "perfectionist"
      [] kind = "EslintQwik" -> "qwik"
      [] kind = "EslintReact" -> "react"
      [] kind = "EslintReactHooks" -> "react-hooks"
      [] kind = "EslintReactPreferFunctionComponent" -> "react-prefer-function-component"
      [] kind = "EslintReactRefresh" -> "react-refresh"
      [] kind = "EslintReactX" -> "react-x"
      [] kind = "EslintReactXyz" -> "@eslint-react"
      [] kind = "EslintRegexp" -> "regexp"
      [] kind = "EslintSolid" -> "solid"
      [] kind = "EslintSonarJs" -> "sonarjs"
      [] kind = "EslintStylistic" -> "@stylistic"
      [] kind = "EslintTurbo" -> "turbo"
      [] kind = "EslintTypeScript" -> "@typescript-eslint"
      [] kind = "EslintUnicorn" -> "unicorn"
      [] kind = "EslintUnusedImports" -> "unused-imports"
      [] kind = "EslintVitest" -> "vitest"
      [] kind = "EslintVueJs" -> "vue"
      [] OTHER -> None

to_ident(kind) ==
    CASE kind = "EslintTypeScript" -> "tseslint"
      [] OTHER -> None

\* import <ident> from "typescript-eslint"; an Option, as a sequence of at most
\* one element
to_import(kind, ident) ==
    CASE kind = "EslintTypeScript" ->
            << [clause |-> "default", binding |-> ident, from |-> "typescript-eslint"] >>
      [] OTHER -> << >>

\* RuleSource::to_namespaced_rule_name (biome_analyze), called at eslint.rs:280:
\* the bare rule name for a source without a plugin namespace, else
\* "<namespace>/<rule name>"
to_namespaced_rule_name(source) ==
    LET namespace == as_namespace(RuleSourceKindFrom(source))
    IN  IF namespace = None THEN source.rule
        ELSE namespace \o "/" \o source.rule

(***************************************************************************)
(* The rules visit_registry records (biome_js_analyze), as RuleMetadata    *)
(***************************************************************************)
Src(source, rule) == [source |-> source, rule |-> rule]

Meta(name, severity, srcs) == [name |-> name, severity |-> severity, sources |-> srcs]

Catalog ==
    { [group |-> "a11y",
       metadata |-> Meta("useAltText", "Warning",
                         << Src("EslintJsxA11y", "alt-text") >>)],
      [group |-> "correctness",
       metadata |-> Meta("noUnusedVariables", "Fatal",
                         << Src("Eslint", "no-unused-vars"),
                            Src("EslintTypeScript", "no-unused-vars") >>)],
      [group |-> "performance",
       metadata |-> Meta("noDelete", "Information", << >>)],
      [group |-> "style",
       metadata |-> Meta("noVar", "Error", << Src("Eslint", "no-var") >>)],
      [group |-> "style",
       metadata |-> Meta("useConsistentArrayType", "Information",
                         << Src("EslintTypeScript", "array-type") >>)],
      [group |-> "style",
       metadata |-> Meta("useShorthandArrayType", "Hint",
                         << Src("EslintTypeScript", "array-type") >>)],
      [group |-> "suspicious",
       metadata |-> Meta("noExplicitAny", "Warning",
                         << Src("EslintTypeScript", "no-explicit-any") >>)] }

GroupNames ==
    { "a11y", "complexity", "correctness", "nursery", "performance",
      "security", "style", "suspicious" }

RuleNamesOf(group) == { c.metadata.name : c \in { d \in Catalog : d.group = group } }

RuleKeys == { <<c.group, c.metadata.name>> : c \in Catalog }

(***************************************************************************)
(* Ord for str: byte order, tabulated for the strings that occur           *)
(***************************************************************************)
ByteOrder ==
    << "@typescript-eslint/array-type", "@typescript-eslint/no-explicit-any",
       "@typescript-eslint/no-unused-vars", "a11y", "complexity", "correctness",
       "jsx-a11y/alt-text", "no-unused-vars", "no-var", "noDelete",
       "noExplicitAny", "noUnusedVariables", "noVar", "nursery", "performance",
       "security", "style", "suspicious", "useAltText",
       "useConsistentArrayType", "useShorthandArrayType" >>

StrOrd(s) == CHOOSE i \in 1..Len(ByteOrder) : ByteOrder[i] = s

StrLess(a, b) == StrOrd(a) < StrOrd(b)

(***************************************************************************)
(* BTreeMap / BTreeSet, kept as the sequence of entries in key order       *)
(***************************************************************************)
contains_key(map, key) == \E i \in 1..Len(map) : map[i][1] = key

get(map, key) == map[CHOOSE i \in 1..Len(map) : map[i][1] = key][2]

InsertAt(seq, n, e) == SubSeq(seq, 1, n) \o << e >> \o SubSeq(seq, n + 1, Len(seq))

\* BTreeMap::insert: replaces the value of a key already present
BTreeMapInsert(map, key, value) ==
    IF contains_key(map, key)
    THEN [i \in 1..Len(map) |-> IF map[i][1] = key THEN <<key, value>> ELSE map[i]]
    ELSE InsertAt(map, Cardinality({i \in 1..Len(map) : StrLess(map[i][1], key)}),
                  <<key, value>>)

\* Mutation of BTreeSetInsert: a Vec push, which keeps duplicates
PushKind(set, kind) == Append(set, kind)

\* BTreeSet<RuleSourceKind>::insert
BTreeSetInsert(set, kind) ==
    IF \E i \in 1..Len(set) : set[i] = kind
    THEN set
    ELSE InsertAt(set, Cardinality({i \in 1..Len(set) : KindLess(set[i], kind)}), kind)

(***************************************************************************)
(* Configuration (biome_configuration): linter.enabled and, per group, an  *)
(* absent section, a plain value, or a group of per-rule values            *)
(***************************************************************************)
\* the variants of GroupPlainConfiguration and of RulePlainConfiguration
PlainValues == { "Off", "On", "Info", "Warn", "Error" }

NoSection == [kind |-> "None", plain |-> None, overrides |-> {}]

PlainSection(plain) == [kind |-> "Plain", plain |-> plain, overrides |-> {}]

GroupSection(overrides) == [kind |-> "Group", plain |-> None, overrides |-> overrides]

OverrideSets(group) ==
    { ov \in SUBSET (RuleNamesOf(group) \X PlainValues) :
        /\ Cardinality(ov) <= MaxOverrides
        /\ \A a, b \in ov : a[1] = b[1] => a = b }

Sections(group) ==
    {NoSection} \cup { PlainSection(p) : p \in PlainValues }
                \cup { GroupSection(ov) : ov \in OverrideSets(group) }

EmptyRules == [g \in GroupNames |-> NoSection]

\* the rules sections drawn for biome.json: at most one group is configured
RulesConfigurations ==
    {EmptyRules} \cup
    UNION { { [EmptyRules EXCEPT ![g] = s] : s \in Sections(g) } : g \in GroupNames }

Configurations ==
    { [linter |-> l, rules |-> r] : l \in BOOLEAN, r \in RulesConfigurations }

is_linter_enabled(cfg) == cfg.linter

get_linter_rules(cfg) == cfg.rules

\* RuleGroupExt::get_rule_configuration: the rule's own value in the group, if set
get_rule_configuration(group, rule) ==
    IF \E o \in group.overrides : o[1] = rule
    THEN (CHOOSE o \in group.overrides : o[1] = rule)[2]
    ELSE None

\* Rules::as_enabled_rules (biome_configuration) flattened by the filter_map of
\* eslint.rs:249-256: some set of (group, rule) pairs, none of them switched off
IsOff(rules_config, key) ==
    LET section == rules_config[key[1]]
    IN  \/ section.kind = "Plain" /\ section.plain = "Off"
        \/ section.kind = "Group" /\ get_rule_configuration(section, key[2]) = "Off"

EnabledRuleSets(rules_config) ==
    SUBSET { key \in RuleKeys : ~IsOff(rules_config, key) }

(***************************************************************************)
(* Severity resolver (eslint.rs:168-245)                                   *)
(***************************************************************************)
group_config_to_severity(plain) ==
    CASE plain = "Error" -> "Error"
      [] plain = "Warn" -> "Warning"
      [] plain = "Info" -> "Information"
      [] OTHER -> None

rule_config_to_severity(plain) ==
    CASE plain = "Error" -> "Error"
      [] plain = "Warn" -> "Warning"
      [] plain = "Info" -> "Information"
      [] OTHER -> None

\* called on Some(section) only
severity_or_group_to_severity(severity_or_group, rule) ==
    IF severity_or_group.kind = "Plain"
    THEN group_config_to_severity(severity_or_group.plain)
    ELSE LET plain == get_rule_configuration(severity_or_group, rule)
         IN  IF plain = None THEN None ELSE rule_config_to_severity(plain)

\* Option::as_ref().and_then(|group| severity_or_group_to_severity(group, rule))
AndThenSeverity(section, rule) ==
    IF section.kind = "None" THEN None
    ELSE severity_or_group_to_severity(section, rule)

get_configured_severity(rules_config, group, rule) ==
    CASE group = "a11y" -> AndThenSeverity(rules_config["a11y"], rule)
      [] group = "complexity" -> AndThenSeverity(rules_config["complexity"], rule)
      [] group = "correctness" -> AndThenSeverity(rules_config["correctness"], rule)
      [] group = "nursery" -> AndThenSeverity(rules_config["nursery"], rule)
      [] group = "performance" -> AndThenSeverity(rules_config["performance"], rule)
      [] group = "security" -> AndThenSeverity(rules_config["security"], rule)
      [] group = "style" -> AndThenSeverity(rules_config["style"], rule)
      [] group = "suspicious" -> AndThenSeverity(rules_config["performance"], rule)
      [] OTHER -> None

\* get_configured_severity(..).unwrap_or(metadata.severity)
ResolveSeverity(rules_config, group, metadata) ==
    LET configured == get_configured_severity(rules_config, group, metadata.name)
    IN  IF configured = None THEN metadata.severity ELSE configured

\* Mutation of severity_to_eslint_level: only Severity::Error gives "error"
ErrorOnlyLevel(severity) == IF severity = "Error" THEN "error" ELSE "warn"

severity_to_eslint_level(severity) ==
    CASE severity \in {"Error", "Fatal"} -> "error"
      [] severity \in {"Warning", "Information", "Hint"} -> "warn"

(***************************************************************************)
(* main (main.rs:36-58) and RuleRegistry::record_rule (main.rs:22-33)      *)
(***************************************************************************)
Init ==
    /\ config \in Configurations
    /\ groups = << >>
    /\ pc = "visit_registry"
    /\ enabled_rules = {}
    /\ gi = 1
    /\ ri = 1
    /\ sources = << >>
    /\ rules = << >>
    /\ log = << >>
    /\ imports = << >>
    /\ plugins = << >>
    /\ objects = << >>
    /\ fault = None
    /\ file = << >>

Recorded(R) ==
    /\ contains_key(groups, R.group)
    /\ contains_key(get(groups, R.group), R.metadata.name)

\* self.groups.entry(group).or_insert_with(Default::default).insert(name, metadata)
RegistryInsert(registry, group, metadata) ==
    LET entry == IF contains_key(registry, group) THEN get(registry, group) ELSE << >>
    IN  BTreeMapInsert(registry, group, BTreeMapInsert(entry, metadata.name, metadata))

\* visit_registry calls record_rule once for each rule, in an order of its own
record_rule(R) ==
    /\ pc = "visit_registry"
    /\ ~Recorded(R)
    /\ groups' = RegistryInsert(groups, R.group, R.metadata)
    /\ UNCHANGED <<config, pc, enabled_rules, gi, ri, sources, rules, log,
                   imports, plugins, objects, fault, file>>

VisitDone == \A R \in Catalog : Recorded(R)

\* main.rs:47 with the linter disabled: nothing is written
LinterDisabled ==
    /\ pc = "visit_registry"
    /\ VisitDone
    /\ ~is_linter_enabled(config)
    /\ pc' = "exit"
    /\ UNCHANGED <<config, groups, enabled_rules, gi, ri, sources, rules, log,
                   imports, plugins, objects, fault, file>>

(***************************************************************************)
(* write_eslint_config (eslint.rs:247-445)                                 *)
(***************************************************************************)
\* eslint.rs:248-259
CollectEnabledRules ==
    /\ pc = "visit_registry"
    /\ VisitDone
    /\ is_linter_enabled(config)
    /\ enabled_rules' \in EnabledRuleSets(get_linter_rules(config))
    /\ pc' = "walk"
    /\ UNCHANGED <<config, groups, gi, ri, sources, rules, log,
                   imports, plugins, objects, fault, file>>

\* Mutation of first: metadata.sources.last()
last_source(srcs) == IF Len(srcs) = 0 THEN << >> ELSE << srcs[Len(srcs)] >>

\* metadata.sources.first(): an Option, as a sequence of at most one element
first(srcs) == IF Len(srcs) = 0 THEN << >> ELSE << srcs[1] >>

CurGroup == groups[gi][1]

CurRule == groups[gi][2][ri][1]

CurMetadata == groups[gi][2][ri][2]

\* println!("{group}:") on entering a group, then the line of the rule, if any
Printed(line) ==
    (IF ri = 1
     THEN << [group |-> CurGroup, rule |-> None, name |-> None, severity |-> None] >>
     ELSE << >>) \o line

\* the next iteration of the two nested for loops, or the end of the walk
Advance ==
    IF ri < Len(groups[gi][2])
    THEN /\ ri' = ri + 1
         /\ UNCHANGED <<gi, pc>>
    ELSE /\ ri' = 1
         /\ gi' = gi + 1
         /\ pc' = IF gi < Len(groups) THEN "walk" ELSE "plugins"

\* eslint.rs:265-267
WalkDisabled ==
    /\ pc = "walk"
    /\ <<CurGroup, CurRule>> \notin enabled_rules
    /\ log' = log \o Printed(<< >>)
    /\ Advance
    /\ UNCHANGED <<config, groups, enabled_rules, sources, rules,
                   imports, plugins, objects, fault, file>>

\* eslint.rs:269-277
WalkUnmapped ==
    /\ pc = "walk"
    /\ <<CurGroup, CurRule>> \in enabled_rules
    /\ first(CurMetadata.sources) = << >>
    /\ log' = log \o Printed(<< [group |-> CurGroup, rule |-> CurRule,
                                name |-> None, severity |-> None] >>)
    /\ Advance
    /\ UNCHANGED <<config, groups, enabled_rules, sources, rules,
                   imports, plugins, objects, fault, file>>

\* Mutation of RulesInsert: entries kept in insertion order, as a Vec of pairs
\* would keep them
InsertUnordered(map, key, value) ==
    IF contains_key(map, key)
    THEN [i \in 1..Len(map) |-> IF map[i][1] = key THEN <<key, value>> ELSE map[i]]
    ELSE Append(map, <<key, value>>)

\* Mutation of RulesInsert: a key already present keeps its value, as
\* entry(key).or_insert(value) would
InsertKeepFirst(map, key, value) ==
    IF contains_key(map, key)
    THEN map
    ELSE InsertAt(map, Cardinality({i \in 1..Len(map) : StrLess(map[i][1], key)}),
                  <<key, value>>)

\* rules.insert(rule_name, severity)
RulesInsert(map, rule_name, severity) == BTreeMapInsert(map, rule_name, severity)

\* eslint.rs:269-285
WalkMapped ==
    /\ pc = "walk"
    /\ <<CurGroup, CurRule>> \in enabled_rules
    /\ first(CurMetadata.sources) # << >>
    /\ LET severity == ResolveSeverity(get_linter_rules(config), CurGroup, CurMetadata)
           rule_source == first(CurMetadata.sources)[1]
           source_kind == RuleSourceKindFrom(rule_source)
           rule_name == to_namespaced_rule_name(rule_source)
       IN  /\ log' = log \o Printed(<< [group |-> CurGroup, rule |-> CurRule,
                                        name |-> rule_name, severity |-> severity] >>)
           /\ sources' = BTreeSetInsert(sources, source_kind)
           /\ rules' = RulesInsert(rules, rule_name, severity)
    /\ Advance
    /\ UNCHANGED <<config, groups, enabled_rules,
                   imports, plugins, objects, fault, file>>

\* the sources for which the loop of eslint.rs:292-315 pushes an import and a plugin
Wired(source) ==
    /\ source # "Eslint"
    /\ to_ident(source) # None
    /\ to_import(source, to_ident(source)) # << >>
    /\ as_namespace(source) # None

PluginMember(source) == [name |-> as_namespace(source), value |-> to_ident(source)]

\* eslint.rs:289-315
WirePlugins ==
    /\ pc = "plugins"
    /\ LET wired == SelectSeq(sources, Wired)
       IN  /\ imports' = imports \o
                 [i \in 1..Len(wired) |-> to_import(wired[i], to_ident(wired[i]))[1]]
           /\ plugins' = plugins \o [i \in 1..Len(wired) |-> PluginMember(wired[i])]
    /\ pc' = "objects"
    /\ UNCHANGED <<config, groups, enabled_rules, gi, ri, sources, rules, log,
                   objects, fault, file>>

\* `len - 1` on usize: a sequence of one number, empty where the subtraction
\* overflows
SeparatorCount(len) == IF len >= 1 THEN << len - 1 >> ELSE << >>

RuleMember(entry) == [name |-> entry[1], value |-> severity_to_eslint_level(entry[2])]

ObjectExpression(members, separators) == [members |-> members, separators |-> separators]

\* eslint.rs:317-348, neither subtraction overflowing
BuildObjects ==
    /\ pc = "objects"
    /\ SeparatorCount(Len(plugins)) # << >>
    /\ SeparatorCount(Len(rules)) # << >>
    /\ objects' =
         [plugins |-> ObjectExpression(plugins, SeparatorCount(Len(plugins))[1]),
          rules |-> ObjectExpression([i \in 1..Len(rules) |-> RuleMember(rules[i])],
                                     SeparatorCount(Len(rules))[1])]
    /\ pc' = "emit"
    /\ UNCHANGED <<config, groups, enabled_rules, gi, ri, sources, rules, log,
                   imports, plugins, fault, file>>

\* eslint.rs:323 or eslint.rs:345 overflowing: a build with overflow checks panics
\* there; one without them wraps to usize::MAX separators, a member list that
\* cannot be built. The plugins object is built first.
ObjectsOverflow ==
    /\ pc = "objects"
    /\ \/ SeparatorCount(Len(plugins)) = << >>
       \/ SeparatorCount(Len(rules)) = << >>
    /\ fault' = IF SeparatorCount(Len(plugins)) = << >>
                THEN "plugin_count - 1" ELSE "rules.len() - 1"
    /\ \E overflow_checks \in BOOLEAN :
           pc' = IF overflow_checks THEN "panicked" ELSE "exhausted"
    /\ UNCHANGED <<config, groups, enabled_rules, gi, ri, sources, rules, log,
                   imports, plugins, objects, file>>

\* import { defineConfig } from "eslint/config";
DefineConfigImport ==
    [clause |-> "named", binding |-> "defineConfig", from |-> "eslint/config"]

\* Mutation of PushDefineConfig: the import is put in front of the list
InsertDefineConfigFirst(list) == << DefineConfigImport >> \o list

\* eslint.rs:351-375
PushDefineConfig(list) == Append(list, DefineConfigImport)

\* eslint.rs:377-422: export default defineConfig({ plugins: ..., rules: ... })
ExportDefault(objs) ==
    [clause |-> "export default",
     callee |-> "defineConfig",
     argument |-> << [name |-> "plugins", value |-> objs.plugins],
                     [name |-> "rules", value |-> objs.rules] >>]

\* eslint.rs:424-428
ModuleItems(list, export) == list \o << export >>

\* eslint.rs:350-444; the formatter and the file system are taken not to fail
Emit ==
    /\ pc = "emit"
    /\ imports' = PushDefineConfig(imports)
    /\ file' = ModuleItems(imports', ExportDefault(objects))
    /\ pc' = "done"
    /\ UNCHANGED <<config, groups, enabled_rules, gi, ri, sources, rules, log,
                   plugins, objects, fault>>

Next ==
    \/ \E R \in Catalog : record_rule(R)
    \/ LinterDisabled
    \/ CollectEnabledRules
    \/ WalkDisabled
    \/ WalkUnmapped
    \/ WalkMapped
    \/ WirePlugins
    \/ BuildObjects
    \/ ObjectsOverflow
    \/ Emit

Spec == Init /\ [][Next]_vars

(***************************************************************************)
(* Vocabulary of the properties                                            *)
(***************************************************************************)
AfterWalk == pc \in {"plugins", "objects", "emit", "done", "panicked", "exhausted"}

AfterWiring == pc \in {"objects", "emit", "done", "panicked", "exhausted"}

Ended == pc \in {"done", "panicked", "exhausted"}

Failed == pc \in {"panicked", "exhausted"}

Keys(map) == { map[i][1] : i \in 1..Len(map) }

Elements(seq) == { seq[i] : i \in 1..Len(seq) }

\* the rules of the registry that are enabled, and those of them with a reference
EnabledRules == { c \in Catalog : <<c.group, c.metadata.name>> \in enabled_rules }

MappedRules == { c \in EnabledRules : Len(c.metadata.sources) >= 1 }

UnmappedRules == { c \in EnabledRules : Len(c.metadata.sources) = 0 }

FirstName(c) == to_namespaced_rule_name(c.metadata.sources[1])

FirstKind(c) == c.metadata.sources[1].source

LaterNames(c) ==
    { to_namespaced_rule_name(c.metadata.sources[i]) : i \in 2..Len(c.metadata.sources) }

Enabled(group, rule) == <<group, rule>> \in enabled_rules

MetadataOf(group, rule) ==
    (CHOOSE c \in Catalog : c.group = group /\ c.metadata.name = rule).metadata

\* the lines of the walk that report a resolved rule
Resolved == { e \in Elements(log) : e.rule # None /\ e.name # None }

\* rules are processed in the order of group name, then rule name
ProcessedBefore(c, d) ==
    \/ StrLess(c.group, d.group)
    \/ c.group = d.group /\ StrLess(c.metadata.name, d.metadata.name)

\* the rule processed last among those whose first reference is `name`
LastWriter(name) ==
    CHOOSE c \in MappedRules :
        /\ FirstName(c) = name
        /\ \A d \in MappedRules : FirstName(d) = name /\ d # c => ProcessedBefore(d, c)

AsSeverity(plain) ==
    CASE plain = "Error" -> "Error" [] plain = "Warn" -> "Warning"
      [] plain = "Info" -> "Information"

\* precedence as documented: the rule's own override in its group's section,
\* else the group's plain severity, else the compiled-in default
IntendedSeverity(rules_config, group, rule, default) ==
    LET section == rules_config[group]
        own == IF section.kind = "Group" THEN get_rule_configuration(section, rule)
               ELSE None
    IN  IF own \in {"Error", "Warn", "Info"} THEN AsSeverity(own)
        ELSE IF section.kind = "Plain" /\ section.plain \in {"Error", "Warn", "Info"}
        THEN AsSeverity(section.plain)
        ELSE default

\* the configuration with every section but the one of `group` removed
OnlySection(rules_config, group) ==
    [g \in GroupNames |-> IF g = group THEN rules_config[g] ELSE NoSection]

PluginImports == SelectSeq(imports, LAMBDA i : i # DefineConfigImport)

(***************************************************************************)
(* Properties                                                              *)
(***************************************************************************)
\* C1: a run whose plugin list or rule map is empty completes and emits the
\* empty list as an empty object inside the single default export.
C1_EmptyObjectsEmitted ==
    (Ended /\ (Len(plugins) = 0 \/ Len(rules) = 0)) =>
        /\ pc = "done"
        /\ file[Len(file)].argument[1].value.members = plugins
        /\ Len(file[Len(file)].argument[2].value.members) = Len(rules)

\* C2: the severity resolved for a rule with a reference is its own override,
\* else the plain severity of its group, else its default, in every group.
C2_SeverityPrecedence ==
    \A e \in Resolved :
        e.severity = IntendedSeverity(get_linter_rules(config), e.group, e.rule,
                                      MetadataOf(e.group, e.rule).severity)

\* C3: after the walk the rule map holds the name of the first reference of
\* every enabled rule that has references, and no key comes from a second or
\* later reference.
C3_FirstReferenceOnly ==
    AfterWalk =>
        /\ \A c \in MappedRules : FirstName(c) \in Keys(rules)
        /\ Keys(rules) \subseteq { FirstName(c) : c \in MappedRules }

C3_Witness ==
    /\ AfterWalk
    /\ Enabled("correctness", "noUnusedVariables")
    /\ Enabled("a11y", "useAltText")
    /\ Enabled("suspicious", "noExplicitAny")
    /\ "no-unused-vars" \in Keys(rules)
    /\ "@typescript-eslint/no-unused-vars" \notin Keys(rules)

\* C4: an enabled rule without references adds no rule entry and no provider,
\* and a run does not fail on account of such rules, also when every enabled
\* rule is one.
C4_UnmappedRulesIgnored ==
    /\ AfterWalk =>
         /\ \A e \in Resolved : Len(MetadataOf(e.group, e.rule).sources) >= 1
         /\ Len(rules) <= Cardinality(MappedRules)
         /\ Elements(sources) \subseteq { FirstKind(c) : c \in MappedRules }
    /\ (Ended /\ UnmappedRules # {} /\ MappedRules = {}) => ~Failed

\* C5: the plugin imports are exactly one for each provider that is the first
\* reference of an enabled rule and has an import binding, and the plugins
\* object has one entry per import.
C5_PluginImportsMinimal ==
    AfterWiring =>
        LET bound == { k \in { FirstKind(c) : c \in MappedRules } : to_ident(k) # None }
        IN  /\ Len(PluginImports) = Cardinality(bound)
            /\ Elements(PluginImports) = { to_import(k, to_ident(k))[1] : k \in bound }
            /\ Len(plugins) = Len(PluginImports)
            /\ { plugins[i].name : i \in 1..Len(plugins) } =
                  { as_namespace(k) : k \in bound }
            /\ \A c \in MappedRules :
                  (FirstKind(c) = "Eslint" \/ to_ident(FirstKind(c)) = None) =>
                      \A i \in 1..Len(plugins) :
                          plugins[i].name # as_namespace(FirstKind(c))
            /\ \A i \in 1..Len(plugins) : plugins[i].value = PluginImports[i].binding

C5_Witness ==
    /\ pc = "objects"
    /\ Enabled("style", "useConsistentArrayType")
    /\ Enabled("style", "useShorthandArrayType")
    /\ Enabled("suspicious", "noExplicitAny")
    /\ Enabled("a11y", "useAltText")
    /\ Enabled("style", "noVar")
    /\ Len(imports) = 1

\* C6 as stated: the defineConfig import is the first item of the module, the
\* plugin imports follow it, the default export is last.
C6_DefineConfigFirst ==
    pc = "done" =>
        /\ file[1] = DefineConfigImport
        /\ \A i \in 2..(Len(file) - 1) : file[i].from # "eslint/config"
        /\ file[Len(file)].clause = "export default"

\* C6 amended: the plugin imports come first, in provider order, the
\* defineConfig import follows them, the default export is last.
C6_DefineConfigLast ==
    pc = "done" =>
        /\ Len(file) = Len(plugins) + 2
        /\ \A i \in 1..Len(plugins) :
              /\ file[i].clause = "default"
              /\ file[i].binding = plugins[i].value
        /\ \A i, j \in 1..Len(plugins) :
              i < j => \E k, l \in Elements(sources) :
                          /\ KindLess(k, l)
                          /\ as_namespace(k) = plugins[i].name
                          /\ as_namespace(l) = plugins[j].name
        /\ file[Len(file) - 1] = DefineConfigImport
        /\ file[Len(file)].clause = "export default"

C6_Witness ==
    /\ pc = "done"
    /\ Len(file) = 3
    /\ file[1].from = "typescript-eslint"
    /\ file[2].from = "eslint/config"

\* C7: the level emitted for an entry of the rule map is "error" exactly when
\* its severity is Error or Fatal, and "warn" otherwise.
C7_LevelCollapse ==
    pc \in {"emit", "done"} =>
        /\ Len(objects.rules.members) = Len(rules)
        /\ \A i \in 1..Len(rules) :
              LET member == objects.rules.members[i]
              IN  /\ member.name = rules[i][1]
                  /\ member.value \in {"error", "warn"}
                  /\ member.value = "error" <=> rules[i][2] \in {"Error", "Fatal"}

C7_Witness ==
    /\ pc = "done"
    /\ { rules[i][2] : i \in 1..Len(rules) } =
          {"Hint", "Information", "Warning", "Error", "Fatal"}

\* the elements of a finite set as the sequence that Less orders
Sorted(S, Less(_, _)) ==
    [i \in 1..Cardinality(S) |->
        CHOOSE x \in S : Cardinality({ y \in S : Less(y, x) }) = i - 1]

Level(severity) == IF severity \in {"Error", "Fatal"} THEN "error" ELSE "warn"

\* the module as a function of the set of recorded rules, the configuration and
\* the enabled rules alone
ExpectedPlugins ==
    Sorted({ k \in { FirstKind(c) : c \in MappedRules } : k = "EslintTypeScript" },
           KindLess)

ExpectedRuleNames == Sorted({ FirstName(c) : c \in MappedRules }, StrLess)

ExpectedFile ==
    [i \in 1..Len(ExpectedPlugins) |->
        [clause |-> "default", binding |-> "tseslint", from |-> "typescript-eslint"]]
    \o << [clause |-> "named", binding |-> "defineConfig", from |-> "eslint/config"] >>
    \o << [clause |-> "export default",
           callee |-> "defineConfig",
           argument |->
             << [name |-> "plugins",
                 value |-> [members |-> [i \in 1..Len(ExpectedPlugins) |->
                                           [name |-> "@typescript-eslint",
                                            value |-> "tseslint"]],
                            separators |-> Len(ExpectedPlugins) - 1]],
                [name |-> "rules",
                 value |-> [members |-> [i \in 1..Len(ExpectedRuleNames) |->
                                           [name |-> ExpectedRuleNames[i],
                                            value |-> Level(ResolveSeverity(
                                                get_linter_rules(config),
                                                LastWriter(ExpectedRuleNames[i]).group,
                                                LastWriter(ExpectedRuleNames[i]).metadata))]],
                            separators |-> Len(ExpectedRuleNames) - 1]] >>] >>

\* C8: the module written is determined by the recorded rules, the
\* configuration and the enabled rules, whatever the order of record_rule; its
\* rule entries are in the order of their names, its plugin entries in
\* provider order.
C8_Deterministic ==
    pc = "done" =>
        /\ file = ExpectedFile
        /\ LET members == file[Len(file)].argument[2].value.members
           IN  \A i, j \in 1..Len(members) :
                   i < j => StrLess(members[i].name, members[j].name)

C8_Witness ==
    /\ pc = "done"
    /\ Enabled("style", "useConsistentArrayType")
    /\ Enabled("style", "useShorthandArrayType")
    /\ Len(rules) >= 4

\* C9: the severity resolved for a rule of a group depends on the section of
\* that group alone, and a severity set there is the one used.
C9_OwnSectionOnly ==
    \A e \in Resolved :
        LET own == OnlySection(get_linter_rules(config), e.group)
        IN  /\ e.severity = ResolveSeverity(own, e.group, MetadataOf(e.group, e.rule))
            /\ e.severity = IntendedSeverity(own, e.group, e.rule,
                                             MetadataOf(e.group, e.rule).severity)

\* C10: the keys of the rule map are unique; a name that several enabled rules
\* have as first reference has one entry, with the severity resolved for the
\* rule processed last in the order of group name, then rule name; the
\* provider of every such rule is in the source set.
C10_LastWriterWins ==
    /\ \A i, j \in 1..Len(rules) : rules[i][1] = rules[j][1] => i = j
    /\ \A i, j \in 1..Len(log) :
          (i < j /\ log[i].rule # None /\ log[j].rule # None) =>
              ProcessedBefore([group |-> log[i].group, metadata |-> [name |-> log[i].rule]],
                              [group |-> log[j].group, metadata |-> [name |-> log[j].rule]])
    /\ AfterWalk =>
          /\ \A i \in 1..Len(rules) :
                rules[i][2] = ResolveSeverity(get_linter_rules(config),
                                              LastWriter(rules[i][1]).group,
                                              LastWriter(rules[i][1]).metadata)
          /\ \A c \in MappedRules : FirstKind(c) \in Elements(sources)

C10_Witness ==
    /\ AfterWalk
    /\ Enabled("style", "useConsistentArrayType")
    /\ Enabled("style", "useShorthandArrayType")
    /\ Enabled("suspicious", "noExplicitAny")
    /\ Len(rules) = 2
    /\ get(rules, "@typescript-eslint/array-type") = "Hint"

====
